---- MODULE Spec2Model ----
(***************************************************************************)
(* Model of ww4ff/data/transform/base.py: the pipeline composer            *)
(* (Composition / compose), random_slice, batchify, ZmuvTransform and      *)
(* StandardAudioTransform.compute_lengths.                                 *)
(*                                                                         *)
(* Each component is a small state machine of its own (SpecCompose,        *)
(* SpecSlice, SpecBatch, SpecZmuv, SpecLengths); the variables of the      *)
(* other components stay at their idle values.                             *)
(***************************************************************************)
EXTENDS Integers, Sequences, FiniteSets, TLC

VARIABLES
    b_examples, b_sorted, b_result,                 \* batchify: argument, local `examples` after line 58, return/raise
    s_examples, s_window, s_draws, s_after, s_new,  \* random_slice: arguments, random draws, input after the call, return
    total, mean, mean2,                             \* ZmuvTransform buffers
    z_op, z_arg, z_out, z_calls,                    \* last ZmuvTransform operation, its iterable, its return value, the update calls it made
    z_hidden,                                       \* whether the last masked update had a non-zero value under a 0 of the mask
    seen_n, seen_sum, seen_sq, any_masked, zero_div, \* history of the update calls
    win_length, hop_length, cl_length, cl_out,      \* StandardAudioTransform configuration, compute_lengths argument/return
    c_modules, c_args, c_log, c_result              \* Composition: stages, call arguments, invocation log, return/raise

batch_vars   == <<b_examples, b_sorted, b_result>>
slice_vars   == <<s_examples, s_window, s_draws, s_after, s_new>>
zmuv_vars    == <<total, mean, mean2, z_op, z_arg, z_out, z_calls, z_hidden, seen_n, seen_sum, seen_sq, any_masked, zero_div>>
lengths_vars == <<win_length, hop_length, cl_length, cl_out>>
compose_vars == <<c_modules, c_args, c_log, c_result>>
vars == <<batch_vars, slice_vars, zmuv_vars, lengths_vars, compose_vars>>

(***************************************************************************)
(* Bounds of the model.                                                    *)
(***************************************************************************)
MaxBatch == 3       \* examples per batchify / random_slice call
MaxSamples == 3     \* samples per clip
MaxWindow == 3      \* max_window_size values tried
MaxChunk == 2       \* elements per tensor given to ZmuvTransform.update
MaxTotal == 3       \* cap on ZmuvTransform.total
MaxIter == 2        \* tensors per initialize() iterable
MaxLength == 9      \* sample counts given to compute_lengths
MaxWin == 4         \* win_length values tried
MaxHop == 3         \* hop_length values tried
MaxStages == 3      \* stages per Composition
MaxArgs == 2        \* positional arguments per Composition call

(***************************************************************************)
(* Generic helpers.                                                        *)
(***************************************************************************)
Range(s) == {s[i] : i \in 1..Len(s)}

Reverse(s) == [i \in 1..Len(s) |-> s[Len(s) + 1 - i]]

Abs(x) == IF x < 0 THEN -x ELSE x

RECURSIVE SumSeq(_)
SumSeq(s) == IF s = <<>> THEN 0 ELSE s[1] + SumSeq(Tail(s))

\* all sequences over S of length 0..n
SeqsUpTo(S, n) == UNION {[1..k -> S] : k \in 0..n}

(***************************************************************************)
(* Tensors: a shape and the elements in row-major order.                   *)
(***************************************************************************)
Tensor(shape, data) == [shape |-> shape, data |-> data]

\* t.size(-1) / t.size()[-1]
size_last(t) == t.shape[Len(t.shape)]

\* t.squeeze(): every dimension of size 1 is removed
squeeze(t) == Tensor(SelectSeq(t.shape, LAMBDA d : d # 1), t.data)

\* torch.zeros(n)
zeros(n) == Tensor(<<n>>, [i \in 1..n |-> 0])

\* torch.cat((a, b), -1) for the operand ranks batchify can produce: a
\* zero-dimensional operand raises, two 1-D operands are joined
cat(a, b) ==
    IF Len(a.shape) = 1 /\ Len(b.shape) = 1
    THEN [ok |-> TRUE, t |-> Tensor(<<a.shape[1] + b.shape[1]>>, a.data \o b.data)]
    ELSE [ok |-> FALSE, t |-> Tensor(<<>>, <<>>)]

\* t[..., a:a + w]: the leading dimensions are kept, the slice is clamped
slice_last(t, a, w) ==
    LET n  == size_last(t)
        hi == IF a + w < n THEN a + w ELSE n
        m  == IF hi > a THEN hi - a ELSE 0
    IN  Tensor([i \in 1..Len(t.shape) |-> IF i = Len(t.shape) THEN m ELSE t.shape[i]],
               [i \in 1..m |-> t.data[a + i]])

(***************************************************************************)
(* WakeWordClipExample (ww4ff.data.dataset): audio_data, the label and     *)
(* metadata the transforms ignore (here the clip's identity).              *)
(***************************************************************************)
WakeWordClipExample(id, audio_data, contains_wake_word) ==
    [id |-> id, audio_data |-> audio_data, contains_wake_word |-> contains_wake_word]

\* ex.emplaced_audio_data(new): a new example, every other field shared
emplaced_audio_data(ex, new_audio) ==
    WakeWordClipExample(ex.id, new_audio, ex.contains_wake_word)

\* sample j of clip id: distinct non-zero values, so that a row of a batch or
\* a slice identifies the clip and the offset it was taken from
SampleOf(id, j) == 10 * id + j

\* what a clip is made of: 1..MaxSamples samples, stored 1-D or as [1, N],
\* and its label
ClipKinds == [n : 1..MaxSamples, two_d : BOOLEAN, label : BOOLEAN]

Clip(id, kind) ==
    WakeWordClipExample(id,
        Tensor(IF kind.two_d THEN <<1, kind.n>> ELSE <<kind.n>>,
               [j \in 1..kind.n |-> SampleOf(id, j)]),
        kind.label)

\* the list of clips of the kinds given, the i-th with identity i
Clips(kinds) == [i \in 1..Len(kinds) |-> Clip(i, kinds[i])]

(***************************************************************************)
(* batchify                                                                *)
(***************************************************************************)
sort_key(ex) == size_last(ex.audio_data)

RECURSIVE insert_after_le(_, _)
\* stable insertion: x goes after every element whose key is <= its own
insert_after_le(s, x) ==
    IF s = <<>> THEN <<x>>
    ELSE IF sort_key(s[1]) <= sort_key(x)
         THEN <<s[1]>> \o insert_after_le(Tail(s), x)
         ELSE <<x>> \o s

RECURSIVE sort_ascending(_)
\* the stable ascending sort list.sort performs
sort_ascending(s) ==
    IF s = <<>> THEN <<>>
    ELSE insert_after_le(sort_ascending(SubSeq(s, 1, Len(s) - 1)), s[Len(s)])

\* a descending sort that forgets the two reversals: ties come out reversed
sorted_unstable(examples) == Reverse(sort_ascending(examples))

\* sorted(examples, key=size, reverse=True): the list is reversed, sorted
\* ascending and stably, and reversed again, which keeps ties in input order
sorted_reverse(examples) == Reverse(sort_ascending(Reverse(examples)))

RECURSIVE max_of(_)
max_of(s) ==
    IF Len(s) = 1 THEN s[1]
    ELSE LET m == max_of(Tail(s)) IN IF s[1] >= m THEN s[1] ELSE m

\* labels taken in the order of the unsorted argument
labels_misordered(examples) ==
    LET byId == [i \in 1..Len(examples) |->
                    CHOOSE e \in Range(examples) : e.id = i]
    IN  [i \in 1..Len(examples) |-> IF byId[i].contains_wake_word THEN 1 ELSE 0]

\* line 64: [int(ex.contains_wake_word) for ex in examples]
labels_of(examples) ==
    [i \in 1..Len(examples) |-> IF examples[i].contains_wake_word THEN 1 ELSE 0]

\* line 59: [ex.audio_data.size(-1) for ex in examples]
lengths_of(examples) ==
    [i \in 1..Len(examples) |-> size_last(examples[i].audio_data)]

\* lines 61-62: each row is cat((squeeze(audio), zeros(max_length - n)), -1)
padded_rows(examples, max_length) ==
    [i \in 1..Len(examples) |->
        cat(squeeze(examples[i].audio_data),
            zeros(max_length - size_last(examples[i].audio_data)))]

NoBatch == [kind |-> "none", audio_shape |-> <<>>, audio_tensor |-> <<>>,
            labels_tensor |-> <<>>, lengths_tensor |-> <<>>]

\* batchify(examples): the ClassificationBatch returned, or the error raised
batchify(examples) ==
    LET sorted     == sorted_reverse(examples)
        lengths    == lengths_of(sorted)
        max_length == max_of(lengths)
        rows       == padded_rows(sorted, max_length)
    IN  IF \E i \in 1..Len(rows) : ~rows[i].ok
        THEN [NoBatch EXCEPT !.kind = "error"]
        ELSE [kind           |-> "batch",
              audio_shape    |-> <<Len(rows), max_length>>,
              audio_tensor   |-> [i \in 1..Len(rows) |-> rows[i].t.data],
              labels_tensor  |-> labels_of(sorted),
              lengths_tensor |-> lengths]

\* no call of batchify is under way
BatchIdle ==
    /\ b_examples = <<>>
    /\ b_sorted = <<>>
    /\ b_result = NoBatch

\* the caller holds a non-empty list of examples
BatchInit ==
    /\ \E n \in 1..MaxBatch : \E kinds \in [1..n -> ClipKinds] : b_examples = Clips(kinds)
    /\ b_sorted = <<>>
    /\ b_result = NoBatch

Batchify ==
    /\ b_result.kind = "none"
    /\ b_sorted' = sorted_reverse(b_examples)
    /\ b_result' = batchify(b_examples)
    /\ UNCHANGED <<b_examples, slice_vars, zmuv_vars, lengths_vars, compose_vars>>

(***************************************************************************)
(* random_slice                                                            *)
(***************************************************************************)
\* random.randint(lo, hi): the values a draw can return
randint(lo, hi) == lo..hi

\* a window that stops one sample early
sliced_short(ex, a, max_window_size) ==
    emplaced_audio_data(ex, slice_last(ex.audio_data, a, max_window_size - 1))

\* line 53: ex.emplaced_audio_data(ex.audio_data[..., a:a + max_window_size])
sliced(ex, a, max_window_size) ==
    emplaced_audio_data(ex, slice_last(ex.audio_data, a, max_window_size))

\* lines 48-53, one iteration: a clip shorter than the window is appended
\* as it is, any other clip is sliced at the drawn offset a
slice_one(ex, a, max_window_size) ==
    IF size_last(ex.audio_data) < max_window_size
    THEN ex
    ELSE sliced(ex, a, max_window_size)

\* whether example i draws from the random source, and what it can draw
draws_ok(examples, max_window_size, draws) ==
    \A i \in 1..Len(examples) :
        LET n == size_last(examples[i].audio_data)
        IN  IF n < max_window_size
            THEN draws[i] = 0
            ELSE draws[i] \in randint(0, n - max_window_size)

\* random_slice(examples, max_window_size) under the draws given: the
\* argument as the call leaves it, and the list returned
random_slice(examples, max_window_size, draws) ==
    [examples     |-> examples,
     new_examples |-> [i \in 1..Len(examples) |->
                          slice_one(examples[i], draws[i], max_window_size)]]

NotCalled == <<[id |-> 0, audio_data |-> Tensor(<<>>, <<>>), contains_wake_word |-> FALSE]>>

\* no call of random_slice is under way
SliceIdle ==
    /\ s_examples = <<>>
    /\ s_window = 0
    /\ s_draws = <<>>
    /\ s_after = NotCalled
    /\ s_new = NotCalled

\* the caller holds a list of examples and a window size
\* (every other clip contains the wake word)
SliceInit ==
    /\ \E n \in 1..MaxBatch :
          \E shapes \in [1..n -> [n : 1..MaxSamples, two_d : BOOLEAN]] :
              s_examples = Clips([i \in 1..n |->
                  [n |-> shapes[i].n, two_d |-> shapes[i].two_d, label |-> (i % 2 = 1)]])
    /\ s_window \in 1..MaxWindow
    /\ s_draws = <<>>
    /\ s_after = NotCalled
    /\ s_new = NotCalled

RandomSlice ==
    /\ s_new = NotCalled
    /\ \E draws \in [1..Len(s_examples) -> 0..(MaxSamples - 1)] :
            /\ draws_ok(s_examples, s_window, draws)
            /\ s_draws' = draws
            /\ s_after' = random_slice(s_examples, s_window, draws).examples
            /\ s_new' = random_slice(s_examples, s_window, draws).new_examples
    /\ UNCHANGED <<s_examples, s_window, batch_vars, zmuv_vars, lengths_vars, compose_vars>>

(***************************************************************************)
(* Numbers of the statistics: exact rationals n/d in lowest terms (d > 0), *)
(* with the IEEE results of a division by zero: NaN (0/0), +inf and -inf.  *)
(***************************************************************************)
RECURSIVE GCD(_, _)
GCD(a, b) == IF b = 0 THEN a ELSE GCD(b, a % b)

Sign(k) == IF k > 0 THEN 1 ELSE IF k < 0 THEN -1 ELSE 0

Rat(n, d) == LET g == GCD(Abs(n), d) IN [n |-> n \div g, d |-> d \div g]

FromInt(k) == [n |-> k, d |-> 1]

NaN == [n |-> 0, d |-> 0]

Inf(s) == [n |-> s, d |-> 0]

IsNaN(x) == x.d = 0 /\ x.n = 0

IsFinite(x) == x.d > 0

RAdd(x, y) ==
    IF IsNaN(x) \/ IsNaN(y) THEN NaN
    ELSE IF x.d = 0 /\ y.d = 0 THEN (IF x.n = y.n THEN x ELSE NaN)
    ELSE IF x.d = 0 THEN x
    ELSE IF y.d = 0 THEN y
    ELSE Rat(x.n * y.d + y.n * x.d, x.d * y.d)

RMul(x, y) ==
    IF IsNaN(x) \/ IsNaN(y) THEN NaN
    ELSE IF x.d = 0 \/ y.d = 0
         THEN (IF x.n = 0 \/ y.n = 0 THEN NaN ELSE Inf(Sign(x.n) * Sign(y.n)))
    ELSE Rat(x.n * y.n, x.d * y.d)

RDiv(x, y) ==
    IF IsNaN(x) \/ IsNaN(y) THEN NaN
    ELSE IF x.d = 0 THEN (IF y.d = 0 THEN NaN ELSE Inf(x.n * (IF y.n < 0 THEN -1 ELSE 1)))
    ELSE IF y.d = 0 THEN FromInt(0)
    ELSE IF y.n = 0 THEN (IF x.n = 0 THEN NaN ELSE Inf(Sign(x.n)))
    ELSE Rat(x.n * y.d * Sign(y.n), x.d * Abs(y.n))

RSub(x, y) == RAdd(x, RMul(FromInt(-1), y))

\* x >= y; every comparison with NaN is false
RGe(x, y) ==
    IF IsNaN(x) \/ IsNaN(y) THEN FALSE
    ELSE IF x.d > 0 /\ y.d > 0 THEN x.n * y.d >= y.n * x.d
    ELSE IF x.d = 0 THEN (x.n = 1 \/ x = y)
    ELSE y.n = -1

(***************************************************************************)
(* ZmuvTransform                                                           *)
(***************************************************************************)
\* element values of the feature tensors given to update and forward
Vals == {-1, 2}

\* flattened tensors of 0..MaxChunk elements
Chunks == SeqsUpTo(Vals, MaxChunk)

\* 0/1 masks of n elements
Masks(n) == [1..n -> {0, 1}]

\* tensors an initialize() iterable yields
IterChunks == {<<2>>, <<-1, 0>>}

Iterables == SeqsUpTo(IterChunks, MaxIter)

\* the mask argument: None, or a tensor of data's shape
None == [given |-> FALSE, m |-> <<>>]

Mask(m) == [given |-> TRUE, m |-> m]

\* the buffers registered by __init__ (lines 75-77), as one value
ZState(t, m, m2) == [total |-> t, mean |-> m, mean2 |-> m2]

Self == ZState(total, mean, mean2)

\* data * mask (line 82), or data when mask is None
masked_data(data, mask) ==
    IF mask.given THEN [i \in 1..Len(data) |-> data[i] * mask.m[i]] ELSE data

\* mask.sum().item() (line 83), or data.numel() (line 85)
mask_size_of(data, mask) ==
    IF mask.given THEN SumSeq(mask.m) ELSE Len(data)

\* an update that counts the mask but sums the raw data
update_raw_sum(self, data, mask) ==
    LET n  == mask_size_of(data, mask)
        sq == [i \in 1..Len(data) |-> data[i] * data[i]]
    IN  ZState(self.total + n,
               RDiv(RAdd(FromInt(SumSeq(data)), RMul(self.mean, FromInt(self.total))),
                    FromInt(self.total + n)),
               RDiv(RAdd(FromInt(SumSeq(sq)), RMul(self.mean2, FromInt(self.total))),
                    FromInt(self.total + n)))

\* an update that adds to total before the means are merged
update_total_first(self, data, mask) ==
    LET d  == masked_data(data, mask)
        n  == mask_size_of(data, mask)
        t  == self.total + n
        sq == [i \in 1..Len(d) |-> d[i] * d[i]]
    IN  ZState(t,
               RDiv(RAdd(FromInt(SumSeq(d)), RMul(self.mean, FromInt(t))), FromInt(t + n)),
               RDiv(RAdd(FromInt(SumSeq(sq)), RMul(self.mean2, FromInt(t))), FromInt(t + n)))

\* an update whose second moment sums the data, not its squares
update_no_square(self, data, mask) ==
    LET d == masked_data(data, mask)
        n == mask_size_of(data, mask)
    IN  ZState(self.total + n,
               RDiv(RAdd(FromInt(SumSeq(d)), RMul(self.mean, FromInt(self.total))),
                    FromInt(self.total + n)),
               RDiv(RAdd(FromInt(SumSeq(d)), RMul(self.mean2, FromInt(self.total))),
                    FromInt(self.total + n)))

\* update(data, mask=None), lines 79-88: both means are merged with the old
\* total, then total grows by mask_size
update(self, data, mask) ==
    LET d         == masked_data(data, mask)
        mask_size == mask_size_of(data, mask)
        sq        == [i \in 1..Len(d) |-> d[i] * d[i]]
    IN  ZState(self.total + mask_size,
               RDiv(RAdd(FromInt(SumSeq(d)), RMul(self.mean, FromInt(self.total))),
                    FromInt(self.total + mask_size)),
               RDiv(RAdd(FromInt(SumSeq(sq)), RMul(self.mean2, FromInt(self.total))),
                    FromInt(self.total + mask_size)))

UpdateCall(data, mask) == [data |-> data, mask |-> mask]

RECURSIVE initialize_loop(_, _, _)
\* the loop of initialize (lines 91-92): self and the update calls made so far
initialize_loop(self, iterable, calls) ==
    IF iterable = <<>> THEN [self |-> self, calls |-> calls]
    ELSE initialize_loop(update(self, Head(iterable), None), Tail(iterable),
                         Append(calls, UpdateCall(Head(iterable), None)))

\* initialize(iterable)
initialize(self, iterable) == initialize_loop(self, iterable, <<>>)

\* the std property (lines 94-96): the square root of this radicand
std(self) == [self |-> self, sqrt_of |-> RSub(self.mean2, RMul(self.mean, self.mean))]

\* a forward that also folds x into the statistics
forward_updating(self, x) ==
    [self |-> update(self, <<x>>, None),
     out  |-> [num |-> RSub(FromInt(x), self.mean), sqrt_of |-> std(self).sqrt_of]]

\* forward(x), lines 98-99: (x - mean) / std, kept as numerator and radicand
forward(self, x) ==
    [self |-> self,
     out  |-> [num |-> RSub(FromInt(x), self.mean), sqrt_of |-> std(self).sqrt_of]]

NoOut == [num |-> FromInt(0), sqrt_of |-> FromInt(0)]

\* the elements of data a mask selects (all of them when mask is None)
RECURSIVE Selected(_, _)
Selected(data, m) ==
    IF data = <<>> THEN <<>>
    ELSE (IF m[1] = 1 THEN <<data[1]>> ELSE <<>>) \o Selected(Tail(data), Tail(m))

Contributing(call) ==
    IF call.mask.given THEN Selected(call.data, call.mask.m) ELSE call.data

SumSquares(s) == SumSeq([i \in 1..Len(s) |-> s[i] * s[i]])

RECURSIVE History(_, _, _)
\* the history of update calls, extended by `calls` made from buffers `t` on:
\* elements counted, their sum and sum of squares, whether a mask was given,
\* whether a call divided by total + mask_size = 0
History(h, t, calls) ==
    IF calls = <<>> THEN h
    ELSE LET c == Head(calls)
             n == mask_size_of(c.data, c.mask)
         IN  History([n      |-> h.n + Len(Contributing(c)),
                      sum    |-> h.sum + SumSeq(Contributing(c)),
                      sq     |-> h.sq + SumSquares(Contributing(c)),
                      masked |-> h.masked \/ c.mask.given,
                      zdiv   |-> h.zdiv \/ (t + n = 0)],
                     t + n, Tail(calls))

SeenSoFar == [n |-> seen_n, sum |-> seen_sum, sq |-> seen_sq,
              masked |-> any_masked, zdiv |-> zero_div]

\* the buffers after an operation that made `calls`, and the history
Becomes(self, calls) ==
    LET h == History(SeenSoFar, total, calls)
    IN  /\ total' = self.total
        /\ mean' = self.mean
        /\ mean2' = self.mean2
        /\ z_calls' = calls
        /\ seen_n' = h.n
        /\ seen_sum' = h.sum
        /\ seen_sq' = h.sq
        /\ any_masked' = h.masked
        /\ zero_div' = h.zdiv

ZmuvInit ==
    /\ total = 0
    /\ mean = FromInt(0)
    /\ mean2 = FromInt(0)
    /\ z_op = "init"
    /\ z_arg = <<>>
    /\ z_out = NoOut
    /\ z_calls = <<>>
    /\ z_hidden = FALSE
    /\ seen_n = 0
    /\ seen_sum = 0
    /\ seen_sq = 0
    /\ any_masked = FALSE
    /\ zero_div = FALSE

Update ==
    \E data \in Chunks :
        /\ total + Len(data) <= MaxTotal
        /\ Becomes(update(Self, data, None), <<UpdateCall(data, None)>>)
        /\ z_op' = "update"
        /\ z_arg' = <<>>
        /\ z_out' = NoOut
        /\ z_hidden' = FALSE
        /\ UNCHANGED <<batch_vars, slice_vars, lengths_vars, compose_vars>>

UpdateMasked ==
    \E data \in Chunks :
        \E m \in Masks(Len(data)) :
            /\ total + Len(data) <= MaxTotal
            /\ Becomes(update(Self, data, Mask(m)), <<UpdateCall(data, Mask(m))>>)
            /\ z_op' = "update_mask"
            /\ z_arg' = <<>>
            /\ z_out' = NoOut
            /\ z_hidden' = (\E i \in 1..Len(data) : m[i] = 0 /\ data[i] # 0)
            /\ UNCHANGED <<batch_vars, slice_vars, lengths_vars, compose_vars>>

Initialize ==
    \E iterable \in Iterables :
        /\ total + SumSeq([i \in 1..Len(iterable) |-> Len(iterable[i])]) <= MaxTotal
        /\ Becomes(initialize(Self, iterable).self, initialize(Self, iterable).calls)
        /\ z_op' = "initialize"
        /\ z_arg' = iterable
        /\ z_out' = NoOut
        /\ z_hidden' = FALSE
        /\ UNCHANGED <<batch_vars, slice_vars, lengths_vars, compose_vars>>

Forward ==
    \E x \in Vals :
        /\ Becomes(forward(Self, x).self, <<>>)
        /\ z_op' = "forward"
        /\ z_arg' = <<>>
        /\ z_out' = forward(Self, x).out
        /\ z_hidden' = FALSE
        /\ UNCHANGED <<batch_vars, slice_vars, lengths_vars, compose_vars>>

Std ==
    /\ Becomes(std(Self).self, <<>>)
    /\ z_op' = "std"
    /\ z_arg' = <<>>
    /\ z_out' = [num |-> FromInt(1), sqrt_of |-> std(Self).sqrt_of]
    /\ z_hidden' = FALSE
    /\ UNCHANGED <<batch_vars, slice_vars, lengths_vars, compose_vars>>

(***************************************************************************)
(* StandardAudioTransform.compute_lengths                                  *)
(***************************************************************************)
\* Tensor.long() of a finite value: the fraction is dropped (towards zero)
long(x) == IF x.n >= 0 THEN x.n \div x.d ELSE -((-x.n) \div x.d)

\* line 110: ((length - win_length) / hop_length + 1).long(), the division
\* being true division; the configuration is read, never written
compute_lengths(self, length) ==
    [self |-> self,
     out  |-> long(RAdd(RDiv(FromInt(length - self.win_length), FromInt(self.hop_length)),
                        FromInt(1)))]

SpecTransform == [win_length |-> win_length, hop_length |-> hop_length]

\* __init__ (lines 103-106): win_length and hop_length come from mel_kwargs
LengthsConfig(w, h) ==
    /\ win_length = w
    /\ hop_length = h
    /\ cl_length = 0
    /\ cl_out = 0

LengthsInit == \E w \in 1..MaxWin, h \in 1..MaxHop : LengthsConfig(w, h)

LengthsIdle == LengthsConfig(MaxWin, MaxHop)

ComputeLengths ==
    \E length \in 1..MaxLength :
        /\ cl_length' = length
        /\ cl_out' = compute_lengths(SpecTransform, length).out
        /\ win_length' = compute_lengths(SpecTransform, length).self.win_length
        /\ hop_length' = compute_lengths(SpecTransform, length).self.hop_length
        /\ UNCHANGED <<batch_vars, slice_vars, zmuv_vars, compose_vars>>

(***************************************************************************)
(* Composition / compose.  A value is a sequence of tokens: <<k>> for the  *)
(* scalar k, and <<-1>> \o v1 \o ... \o vn \o <<-2>> for the tuple         *)
(* (v1, ..., vn), so that a tuple and its elements are different values.   *)
(***************************************************************************)
RECURSIVE Flatten(_)
Flatten(vs) == IF vs = <<>> THEN <<>> ELSE Head(vs) \o Flatten(Tail(vs))

MkTuple(vs) == <<-1>> \o Flatten(vs) \o <<-2>>

\* the exception a failing stage raises: it carries what the stage was given
StageError(args) == <<-3>> \o Flatten(args)

IndexError == <<-4>>

ArgVals == {<<1>>, <<2>>, MkTuple(<<<<1>>, <<2>>>>)}

\* the stages: "tuple" returns its arguments as one tuple, "first" its first
\* argument, "count" the number of arguments it was called with, "fail" raises
StageKinds == {"tuple", "first", "count", "fail"}

\* mod(*args)
call_stage(mod, args) ==
    CASE mod = "tuple" -> [ok |-> TRUE, out |-> MkTuple(args)]
      [] mod = "first" -> [ok |-> TRUE, out |-> args[1]]
      [] mod = "count" -> [ok |-> TRUE, out |-> <<Len(args)>>]
      [] OTHER         -> [ok |-> FALSE, out |-> StageError(args)]

LogEntry(i, args, r) == [stage |-> i, args |-> args, ok |-> r.ok, out |-> r.out]

RECURSIVE forward_loop_recovering(_, _, _, _)
\* a loop that swallows a stage's failure and goes on with the next stage
forward_loop_recovering(modules, i, args, log) ==
    IF i > Len(modules)
    THEN (IF args = <<>>
          THEN [kind |-> "raise", value |-> IndexError, log |-> log]
          ELSE [kind |-> "return", value |-> args[1], log |-> log])
    ELSE LET r == call_stage(modules[i], args)
         IN  forward_loop_recovering(modules, i + 1, IF r.ok THEN <<r.out>> ELSE args,
                                     Append(log, LogEntry(i, args, r)))

RECURSIVE forward_loop(_, _, _, _)
\* lines 27-30: for mod in self.modules: args = mod(*args); args = (args,),
\* then return args[0]; an exception of a stage leaves the loop and the call
forward_loop(modules, i, args, log) ==
    IF i > Len(modules)
    THEN (IF args = <<>>
          THEN [kind |-> "raise", value |-> IndexError, log |-> log]
          ELSE [kind |-> "return", value |-> args[1], log |-> log])
    ELSE LET r == call_stage(modules[i], args)
         IN  IF r.ok
             THEN forward_loop(modules, i + 1, <<r.out>>, Append(log, LogEntry(i, args, r)))
             ELSE [kind |-> "raise", value |-> r.out, log |-> Append(log, LogEntry(i, args, r))]

Composition_forward_recovering(modules, args) == forward_loop_recovering(modules, 1, args, <<>>)

\* Composition.forward(*args)
Composition_forward(modules, args) == forward_loop(modules, 1, args, <<>>)

\* compose(*collate_modules) (lines 41-42): the stages, in the order given
compose(collate_modules) == collate_modules

\* no pipeline exists
ComposeIdle ==
    /\ c_modules = <<>>
    /\ c_args = <<>>
    /\ c_log = <<>>
    /\ c_result = [kind |-> "idle", value |-> <<>>]

\* a pipeline built by compose(stages), and the arguments of a call of it
ComposeInit ==
    /\ c_modules \in {compose(stages) : stages \in SeqsUpTo(StageKinds, MaxStages)}
    /\ c_args \in SeqsUpTo(ArgVals, MaxArgs) \ {<<>>}
    /\ c_log = <<>>
    /\ c_result = [kind |-> "none", value |-> <<>>]

CallPipeline ==
    /\ c_result.kind = "none"
    /\ LET r == Composition_forward(c_modules, c_args)
       IN  /\ c_log' = r.log
           /\ c_result' = [kind |-> r.kind, value |-> r.value]
    /\ UNCHANGED <<c_modules, c_args, batch_vars, slice_vars, zmuv_vars, lengths_vars>>

(***************************************************************************)
(* Specifications, one per component.                                      *)
(***************************************************************************)
BatchNext == Batchify

SliceNext == RandomSlice

ZmuvNext == Update \/ UpdateMasked \/ Initialize \/ Forward \/ Std

LengthsNext == ComputeLengths

ComposeNext == CallPipeline

InitBatch == BatchInit /\ SliceIdle /\ ZmuvInit /\ LengthsIdle /\ ComposeIdle

InitSlice == BatchIdle /\ SliceInit /\ ZmuvInit /\ LengthsIdle /\ ComposeIdle

InitZmuv == BatchIdle /\ SliceIdle /\ ZmuvInit /\ LengthsIdle /\ ComposeIdle

InitLengths == BatchIdle /\ SliceIdle /\ ZmuvInit /\ LengthsInit /\ ComposeIdle

InitCompose == BatchIdle /\ SliceIdle /\ ZmuvInit /\ LengthsIdle /\ ComposeInit

SpecBatch == InitBatch /\ [][BatchNext]_vars

SpecSlice == InitSlice /\ [][SliceNext]_vars

SpecZmuv == InitZmuv /\ [][ZmuvNext]_vars

SpecLengths == InitLengths /\ [][LengthsNext]_vars

SpecCompose == InitCompose /\ [][ComposeNext]_vars

\* the whole module: every component, each used on its own
Init == BatchInit /\ SliceInit /\ ZmuvInit /\ LengthsInit /\ ComposeInit

Next == BatchNext \/ SliceNext \/ ZmuvNext \/ LengthsNext \/ ComposeNext

Spec == Init /\ [][Next]_vars

(***************************************************************************)
(* Properties of batchify (SpecBatch).                                     *)
(***************************************************************************)
BatchCalled == b_result.kind # "none"

SampleCount(ex) == size_last(ex.audio_data)

\* row: the samples of ex in order, then zeros up to width
IsPaddedRow(row, ex, width) ==
    /\ Len(row) = width
    /\ SampleCount(ex) <= width
    /\ \A j \in 1..width :
          row[j] = IF j <= SampleCount(ex) THEN ex.audio_data.data[j] ELSE 0

\* C1: for every non-empty list of examples with 1-D or [1, N] audio, N >= 1
\* (N = 1 included), batchify returns a batch of len(examples) rows and
\* max(sample counts) columns, each row being the example's samples in order
\* followed by zeros.
C1_BatchShapeAndPadding ==
    BatchCalled =>
        /\ b_result.kind = "batch"
        /\ b_result.audio_shape =
              <<Len(b_examples), max_of([i \in 1..Len(b_examples) |-> SampleCount(b_examples[i])])>>
        /\ Len(b_result.audio_tensor) = Len(b_examples)
        /\ \A i \in 1..Len(b_result.audio_tensor) :
              IsPaddedRow(b_result.audio_tensor[i], b_sorted[i], b_result.audio_shape[2])

\* C2: batchify orders the examples by sample count, longest first, and
\* keeps examples of equal sample count in their input order; the lengths
\* and the rows of a returned batch follow that order.
C2_StableDescendingOrder ==
    BatchCalled =>
        /\ Len(b_sorted) = Len(b_examples)
        /\ {b_sorted[i].id : i \in 1..Len(b_sorted)} = 1..Len(b_examples)
        /\ \A i \in 1..Len(b_sorted) : b_sorted[i] = b_examples[b_sorted[i].id]
        /\ \A i, j \in 1..Len(b_sorted) :
              i < j =>
                 /\ SampleCount(b_sorted[i]) >= SampleCount(b_sorted[j])
                 /\ SampleCount(b_sorted[i]) = SampleCount(b_sorted[j])
                       => b_sorted[i].id < b_sorted[j].id
        /\ b_result.kind = "batch" =>
              /\ Len(b_result.lengths_tensor) = Len(b_examples)
              /\ \A i \in 1..Len(b_sorted) :
                    /\ b_result.lengths_tensor[i] = SampleCount(b_sorted[i])
                    /\ b_result.audio_tensor[i][1] = b_sorted[i].audio_data.data[1]
              /\ \A i \in 1..(Len(b_sorted) - 1) :
                    b_result.lengths_tensor[i] >= b_result.lengths_tensor[i + 1]

\* a batch of three clips, two of them tied, that the sort had to reorder
C2_Witness ==
    /\ b_result.kind = "batch"
    /\ Len(b_examples) = 3
    /\ SampleCount(b_examples[1]) < SampleCount(b_examples[2])
    /\ SampleCount(b_examples[2]) = SampleCount(b_examples[3])
    /\ b_sorted[1].id = 2
    /\ b_sorted[2].id = 3

\* C3: in every batch batchify returns there is one permutation p of the
\* examples such that row i, label i and length i all belong to example
\* p(i), and no length exceeds the number of columns.
C3_IndexConsistent ==
    b_result.kind = "batch" =>
        LET n == Len(b_examples)
        IN  /\ b_result.audio_shape[1] = n
            /\ Len(b_result.audio_tensor) = n
            /\ Len(b_result.labels_tensor) = n
            /\ Len(b_result.lengths_tensor) = n
            /\ \A i \in 1..n : b_result.lengths_tensor[i] <= b_result.audio_shape[2]
            /\ \E p \in Permutations(1..n) :
                  \A i \in 1..n :
                     /\ IsPaddedRow(b_result.audio_tensor[i], b_examples[p[i]],
                                    b_result.audio_shape[2])
                     /\ b_result.labels_tensor[i] =
                           (IF b_examples[p[i]].contains_wake_word THEN 1 ELSE 0)
                     /\ b_result.lengths_tensor[i] = SampleCount(b_examples[p[i]])

\* a batch whose rows are not in input order, with both labels and padding
C3_Witness ==
    /\ b_result.kind = "batch"
    /\ Len(b_examples) = 3
    /\ b_sorted[1].id = 3
    /\ b_result.labels_tensor = <<1, 0, 1>>
    /\ b_result.lengths_tensor[3] < b_result.audio_shape[2]
    /\ \E i \in 1..3 : b_examples[i].audio_data.shape[1] = 1 /\ Len(b_examples[i].audio_data.shape) = 2

(***************************************************************************)
(* Properties of random_slice (SpecSlice).                                 *)
(***************************************************************************)
SliceCalled == s_new # NotCalled

\* C4: random_slice with window W >= 1 returns as many examples as it was
\* given; a clip of L <= W samples keeps its audio data, a clip of L > W
\* samples becomes the W samples from an offset a in 0..L-W on; the input
\* examples are as they were.
C4_RandomSlice ==
    SliceCalled =>
        /\ Len(s_new) = Len(s_examples)
        /\ s_after = s_examples
        /\ \A i \in 1..Len(s_examples) :
              LET old == s_examples[i].audio_data
                  new == s_new[i].audio_data
                  L   == size_last(old)
              IN  /\ s_new[i].id = s_examples[i].id
                  /\ s_new[i].contains_wake_word = s_examples[i].contains_wake_word
                  /\ L <= s_window => new = old
                  /\ L > s_window =>
                        /\ size_last(new) = s_window
                        /\ Len(new.data) = s_window
                        /\ Len(new.shape) = Len(old.shape)
                        /\ \E a \in 0..(L - s_window) :
                              /\ a = s_draws[i]
                              /\ new.data = [j \in 1..s_window |-> old.data[a + j]]

\* one call with a clip shorter than the window, one of exactly the window's
\* length and one longer, cut at its last possible offset
C4_Witness ==
    /\ SliceCalled
    /\ \E i, j, k \in 1..Len(s_examples) :
          /\ SampleCount(s_examples[i]) < s_window
          /\ SampleCount(s_examples[j]) = s_window
          /\ SampleCount(s_examples[k]) > s_window
          /\ s_draws[k] = SampleCount(s_examples[k]) - s_window
          /\ s_new[k].audio_data.data[1] = s_examples[k].audio_data.data[s_draws[k] + 1]

(***************************************************************************)
(* Properties of ZmuvTransform (SpecZmuv).                                 *)
(***************************************************************************)
\* C5: from any reachable state, update(A) followed by update(B) leaves the
\* buffers that update(A concatenated with B) leaves; so after unmasked
\* updates only, total is the number of elements seen, mean their sum / total
\* and mean2 the sum of their squares / total.
C5_MergeAnyChunks ==
    /\ \A A \in Chunks :
          LET after_A == update(Self, A, None)
          IN  \A B \in Chunks : update(after_A, B, None) = update(Self, A \o B, None)
    /\ ~any_masked =>
          /\ total = seen_n
          /\ total > 0 => /\ mean = Rat(seen_sum, total)
                          /\ mean2 = Rat(seen_sq, total)

\* C5 as amended: the same, except that a first chunk A without elements
\* given while total = 0 divides 0 by 0 and is excluded, in the merge and in
\* the history.
C5_MergeDefined ==
    /\ \A A \in Chunks :
          LET after_A == update(Self, A, None)
          IN  \A B \in Chunks :
                 (total + Len(A) > 0) =>
                     update(after_A, B, None) = update(Self, A \o B, None)
    /\ (~any_masked /\ ~zero_div) =>
          /\ total = seen_n
          /\ total > 0 => /\ mean = Rat(seen_sum, total)
                          /\ mean2 = Rat(seen_sq, total)

\* several unmasked updates have left a mean that is no integer
C5_Witness ==
    /\ ~any_masked
    /\ ~zero_div
    /\ z_op = "update"
    /\ total = 3
    /\ mean.d = 3
    /\ seen_sum = 1

\* C6: a masked update leaves the buffers an unmasked update on the
\* selected elements alone leaves, whatever the data holds where the mask
\* is 0, and total grows by the sum of the mask.
C6_MaskedUpdate ==
    \A data \in Chunks :
        \A m \in Masks(Len(data)) :
            /\ update(Self, data, Mask(m)) = update(Self, Selected(data, m), None)
            /\ update(Self, data, Mask(m)).total = total + SumSeq(m)
            /\ \A v \in Vals :
                  update(Self, [i \in 1..Len(data) |-> IF m[i] = 1 THEN data[i] ELSE v], Mask(m))
                      = update(Self, data, Mask(m))

\* a masked update that hid a non-zero value has been applied
C6_Witness ==
    /\ z_op = "update_mask"
    /\ z_hidden
    /\ total > 0
    /\ total = seen_n
    /\ mean = Rat(seen_sum, total)
    /\ mean # FromInt(0)

\* C7: in every state reachable by update calls, masked or not, total >= 0
\* and mean2 >= mean^2.
C7_MomentsAnyUpdates ==
    /\ total >= 0
    /\ RGe(mean2, RMul(mean, mean))

\* C7 as amended: the same in every state reached without an update that
\* contributed no element while total was 0 (0 / 0).
C7_MomentsDefined ==
    ~zero_div =>
        /\ total >= 0
        /\ IsFinite(mean)
        /\ IsFinite(mean2)
        /\ RGe(mean2, RMul(mean, mean))

\* masked and unmasked updates have left a positive variance
C7_Witness ==
    /\ ~zero_div
    /\ any_masked
    /\ total >= 3
    /\ mean.n < 0
    /\ mean2 # RMul(mean, mean)

RECURSIVE ApplyUpdates(_, _)
\* one unmasked update per element of xs, in order
ApplyUpdates(self, xs) ==
    IF xs = <<>> THEN self ELSE ApplyUpdates(update(self, Head(xs), None), Tail(xs))

\* C8: the buffers are zero at construction; forward and std leave them as
\* they are; only update and initialize change them, initialize by exactly
\* one update per element of its iterable, in order.
C8_OnlyUpdateWrites ==
    /\ (total = 0 /\ mean = FromInt(0) /\ mean2 = FromInt(0))
    /\ [][ /\ z_op' \in {"forward", "std"} => Self' = Self
           /\ Self' # Self => z_op' \in {"update", "update_mask", "initialize"}
           /\ z_op' = "initialize" =>
                 /\ z_calls' = [i \in 1..Len(z_arg') |-> UpdateCall(z_arg'[i], None)]
                 /\ Self' = ApplyUpdates(Self, z_arg')
         ]_vars

\* forward has been called on accumulated statistics
C8_Witness ==
    /\ z_op = "forward"
    /\ total >= 2
    /\ mean # FromInt(0)
    /\ z_out.num # FromInt(0)

(***************************************************************************)
(* Properties of compute_lengths (SpecLengths).                            *)
(***************************************************************************)
\* C9: compute_lengths maps every sample count length >= 1, also below
\* win_length, to floor((length - win_length) / hop_length) + 1.
C9_FloorFormula ==
    cl_length >= 1 => cl_out = ((cl_length - win_length) \div hop_length) + 1

(***************************************************************************)
(* Properties of Composition (SpecCompose).                                *)
(***************************************************************************)
\* C10: a call of compose(s1, ..., sn) invokes the stages once each, in list
\* order, none skipped: s1 gets the call's arguments, every later stage the
\* previous output as its one argument, and sn's output is returned; a
\* failing stage ends the call with its error and no later stage runs.
C10_Sequential ==
    (c_result.kind \in {"return", "raise"} /\ Len(c_modules) >= 1) =>
        LET n == Len(c_modules)
            k == Len(c_log)
        IN  /\ k >= 1
            /\ k <= n
            /\ \A i \in 1..k :
                  /\ c_log[i].stage = i
                  /\ call_stage(c_modules[i], c_log[i].args) =
                        [ok |-> c_log[i].ok, out |-> c_log[i].out]
                  /\ i < k => c_log[i].ok
            /\ c_log[1].args = c_args
            /\ \A i \in 2..k : c_log[i].args = <<c_log[i - 1].out>>
            /\ c_log[k].ok => (k = n /\ c_result = [kind |-> "return", value |-> c_log[n].out])
            /\ ~c_log[k].ok => c_result = [kind |-> "raise", value |-> c_log[k].out]

\* a call with two arguments whose first stage returns a tuple, and whose
\* next stage sees that tuple as one argument
C10_Witness ==
    /\ c_result.kind = "return"
    /\ c_modules = <<"tuple", "count", "tuple">>
    /\ Len(c_args) = 2
    /\ c_log[2].out = <<1>>

\* a call whose second stage failed: the third stage was never invoked
C10_WitnessFailure ==
    /\ c_result.kind = "raise"
    /\ Len(c_modules) = 3
    /\ Len(c_log) = 2

====
